---- MODULE Spec2Model ----
(***************************************************************************)
(* TransformStream (src/src/transform_stream.rs): the write/end protocol   *)
(* and the carry-over buffer of the chunked tokenizer pipeline, driven by  *)
(* the eager state machine test runner                                      *)
(* (src/tests/harness/tokenizer_test/runners/eager_sm/parsing_result.rs).  *)
(* Buffer, Chunk and Tokenizer are not among the source files; they are    *)
(* modelled from their contracts in spec.md (sections 3, 4.1 and 4.3).     *)
(***************************************************************************)
EXTENDS Integers, Sequences, FiniteSets, TLC

\* ------------------------------------------------------------------ bounds
MaxLen == 4          \* longest input, in bytes
MaxCapacity == 2     \* largest buffer capacity tried
MaxEmptyWrites == 1  \* write(b"") calls per run
MaxAttrs == 2        \* most attributes of a start tag
MaxHarnessLen == 5   \* longest input of a harness-only run, in bytes

\* The bytes of the model: tag open, tag close, a name byte, whitespace.
Bytes == {"<", ">", "a", " "}

RECURSIVE SeqsOfLen(_)
SeqsOfLen(n) ==
    IF n = 0 THEN {<<>>}
    ELSE {Append(s, b) : s \in SeqsOfLen(n - 1), b \in Bytes}

Inputs == UNION {SeqsOfLen(n) : n \in 0..MaxLen}

Modes == {"LexUnit", "TagPreview"}

Last(s, n) == SubSeq(s, Len(s) - n + 1, Len(s))

\* ------------------------------------------------------------------ Buffer
\* Buffer::append: fails when len(existing) + len(data) > capacity, else
\* appends in place.
BufferAppend(buf, cap, data) ==
    IF Len(buf) + Len(data) > cap
    THEN [err |-> TRUE, bytes |-> buf]
    ELSE [err |-> FALSE, bytes |-> buf \o data]

\* Buffer::init_with: first clears the existing content, then fails the same
\* way as append.
BufferInitWith(cap, data) == BufferAppend(<<>>, cap, data)

\* Buffer::shrink_to_last(n): keeps the last n bytes.
BufferShrinkToLast(buf, n) == Last(buf, n)

\* ------------------------------------------------------------------ handlers
\* A tag handler that asks for full lex units.
tag_lex_unit_handler_LexUnit == "LexUnit"

\* parsing_result.rs:39  let tag_lex_unit_handler = |_| NextOutputType::TagPreview
tag_lex_unit_handler == "TagPreview"

\* parsing_result.rs:52  the value tag_preview_handler returns
tag_preview_handler_ret == "TagPreview"

\* ------------------------------------------------------------------ Tokenizer
\* A handler delivery: a lex unit (Character, StartTag, Eof), a tag preview,
\* or the confirmation callback of the eager state machine.
Event(kind, raw) == [kind |-> kind, raw |-> raw]

\* The name of a tag whose raw bytes start at "<": the run of name bytes
\* that follows it.
RECURSIVE NameEnd(_, _)
NameEnd(raw, i) ==
    IF i <= Len(raw) /\ raw[i] = "a" THEN NameEnd(raw, i + 1) ELSE i

TagName(raw) == SubSeq(raw, 2, NameEnd(raw, 2) - 1)

\* The tag name boundary: in TagPreview mode the preview handler gets a
\* TagPreview and its return value is the next mode.
NameBoundary(mode, raw) ==
    IF mode = "TagPreview"
    THEN [events |-> <<Event("TagPreview", TagName(raw))>>,
          mode |-> tag_preview_handler_ret]
    ELSE [events |-> <<>>, mode |-> mode]

\* The end of a tag: in LexUnit mode the tag handler gets the full lex unit
\* and returns the next mode; in TagPreview mode the eager state machine
\* calls the confirmation callback.
TagEnd(mode, raw) ==
    IF mode = "LexUnit"
    THEN [events |-> <<Event("StartTag", raw)>>, mode |-> tag_lex_unit_handler]
    ELSE [events |-> <<Event("Confirm", <<>>)>>, mode |-> mode]

\* Pending text handed to the lex unit handler (LexUnit mode only; the eager
\* state machine skips text).
TextEvents(mode, chunk, start, end) ==
    IF mode = "LexUnit" /\ start <= end
    THEN <<Event("Character", SubSeq(chunk, start, end))>>
    ELSE <<>>

\* What is left when the chunk is exhausted: a last chunk flushes the
\* pending text and emits Eof, any other chunk reports the bytes of the
\* unresolved construct as blocked.
EndOfChunk(chunk, last, state, start, mode, events) ==
    IF last
    THEN [err |-> FALSE, blocked |-> 0,
          events |-> events
                     \o (IF state = "Data"
                         THEN TextEvents(mode, chunk, start, Len(chunk))
                         ELSE <<>>)
                     \o <<Event("Eof", <<>>)>>,
          state |-> "Data", mode |-> mode]
    ELSE LET unresolved ==
                 IF state = "Data" /\ mode = "TagPreview"
                 THEN 0
                 ELSE IF start > Len(chunk) THEN 0 ELSE Len(chunk) - start + 1
         IN [err |-> FALSE, blocked |-> unresolved, events |-> events,
             state |-> IF unresolved = 0 THEN "Data" ELSE state, mode |-> mode]

\* The state machine, byte by byte. i is the next byte to read, start the
\* first byte of the construct in progress.
RECURSIVE Scan(_, _, _, _, _, _, _)
Scan(chunk, last, i, state, start, mode, events) ==
    IF i > Len(chunk)
    THEN EndOfChunk(chunk, last, state, start, mode, events)
    ELSE LET b == chunk[i] IN
         IF state = "Data"
         THEN IF b = "<"
              THEN Scan(chunk, last, i + 1, "TagName", i, mode,
                        events \o TextEvents(mode, chunk, start, i - 1))
              ELSE IF b = ">"
              THEN [err |-> TRUE, blocked |-> 0, events |-> events,
                    state |-> state, mode |-> mode]
              ELSE Scan(chunk, last, i + 1, "Data",
                        IF mode = "LexUnit" THEN start ELSE i + 1, mode, events)
         ELSE IF b = "<"
         THEN Scan(chunk, last, i + 1, "TagName", i, mode, events)
         ELSE IF b = ">"
         THEN LET raw == SubSeq(chunk, start, i)
                  nb == IF state = "TagName"
                        THEN NameBoundary(mode, raw)
                        ELSE [events |-> <<>>, mode |-> mode]
                  te == TagEnd(nb.mode, raw)
              IN Scan(chunk, last, i + 1, "Data", i + 1, te.mode,
                      events \o nb.events \o te.events)
         ELSE IF state = "TagName" /\ b = " "
         THEN LET nb == NameBoundary(mode, SubSeq(chunk, start, i))
              IN Scan(chunk, last, i + 1, "InTag", start, nb.mode,
                      events \o nb.events)
         ELSE Scan(chunk, last, i + 1, state, start, mode, events)

\* Tokenizer::tokenize(chunk): resumes after the tk.pos bytes it has already
\* scanned (the blocked bytes of the previous chunk, which start the
\* construct in progress). An error aborts the call and leaves the scanner
\* where the call found it.
Tokenize(tk, chunk, last) ==
    LET r == Scan(chunk, last, tk.pos + 1, tk.state, 1, tk.mode, <<>>)
    IN [err |-> r.err, blocked |-> r.blocked, events |-> r.events,
        tk |-> IF r.err
               THEN [state |-> tk.state, pos |-> tk.pos, mode |-> r.mode]
               ELSE [state |-> r.state, pos |-> r.blocked, mode |-> r.mode]]

\* ------------------------------------------------------------------ TransformStream
\* The assertion is missing.
WritePrecondition_Missing(s) == TRUE

\* transform_stream.rs:23  assert!(!self.finished, ...)
WritePrecondition(s) == ~s.finished

\* transform_stream.rs:59  assert!(!self.finished, ...)
EndPrecondition(s) == ~s.finished

\* The data is added to the buffer without the capacity check.
WriteChunk_Unchecked(s, cap, data) ==
    IF s.has_buffered_data
    THEN [err |-> FALSE, buffer |-> s.buffer \o data, chunk |-> s.buffer \o data]
    ELSE [err |-> FALSE, buffer |-> s.buffer, chunk |-> data]

\* transform_stream.rs:27-32  the chunk handed to the tokenizer by write:
\* the buffer after append(data)? when carry-over is pending, else data.
WriteChunk(s, cap, data) ==
    IF s.has_buffered_data
    THEN LET a == BufferAppend(s.buffer, cap, data)
         IN [err |-> a.err, buffer |-> a.bytes, chunk |-> a.bytes]
    ELSE [err |-> FALSE, buffer |-> s.buffer, chunk |-> data]

\* A write that marks its chunk last.
WriteChunkIsLast_Marked == TRUE

\* transform_stream.rs:32  .into(): the chunk of a write is never marked last
WriteChunkIsLast == FALSE

\* Off by one: a single blocked byte is not buffered.
NeedToBuffer_OffByOne(blocked_byte_count) == blocked_byte_count > 1

\* transform_stream.rs:39
NeedToBuffer(blocked_byte_count) == blocked_byte_count > 0

\* The leading instead of the trailing bytes of data.
BlockedBytes_Leading(data, blocked_byte_count) == SubSeq(data, 1, blocked_byte_count)

\* transform_stream.rs:45  &data[data.len() - blocked_byte_count..]
BlockedBytes(data, blocked_byte_count) == Last(data, blocked_byte_count)

\* The result of init_with is dropped instead of propagated.
WriteStore_IgnoresInitError(s, cap, data, blocked_byte_count) ==
    IF blocked_byte_count > 0
    THEN IF s.has_buffered_data
         THEN [err |-> FALSE,
               buffer |-> Last(s.buffer, blocked_byte_count),
               has_buffered_data |-> TRUE]
         ELSE [err |-> FALSE,
               buffer |-> BufferInitWith(cap, Last(data, blocked_byte_count)).bytes,
               has_buffered_data |-> TRUE]
    ELSE [err |-> FALSE, buffer |-> s.buffer, has_buffered_data |-> FALSE]

\* has_buffered_data is set before init_with is tried.
WriteStore_FlagBeforeInit(s, cap, data, blocked_byte_count) ==
    IF blocked_byte_count > 0
    THEN IF s.has_buffered_data
         THEN [err |-> FALSE,
               buffer |-> Last(s.buffer, blocked_byte_count),
               has_buffered_data |-> TRUE]
         ELSE LET r == BufferInitWith(cap, Last(data, blocked_byte_count))
              IN [err |-> r.err, buffer |-> r.bytes, has_buffered_data |-> TRUE]
    ELSE [err |-> FALSE, buffer |-> s.buffer, has_buffered_data |-> FALSE]

\* A fast-path write with nothing blocked empties the buffer as well.
WriteStore_ClearsBuffer(s, cap, data, blocked_byte_count) ==
    IF blocked_byte_count > 0
    THEN IF s.has_buffered_data
         THEN [err |-> FALSE,
               buffer |-> Last(s.buffer, blocked_byte_count),
               has_buffered_data |-> TRUE]
         ELSE LET r == BufferInitWith(cap, Last(data, blocked_byte_count))
              IN [err |-> r.err, buffer |-> r.bytes,
                  has_buffered_data |-> IF r.err THEN s.has_buffered_data ELSE TRUE]
    ELSE [err |-> FALSE,
          buffer |-> IF s.has_buffered_data THEN s.buffer ELSE <<>>,
          has_buffered_data |-> FALSE]

\* shrink_to_last is left out: the whole buffer stays pending.
WriteStore_KeepsWholeBuffer(s, cap, data, blocked_byte_count) ==
    IF blocked_byte_count > 0
    THEN IF s.has_buffered_data
         THEN [err |-> FALSE, buffer |-> s.buffer, has_buffered_data |-> TRUE]
         ELSE LET r == BufferInitWith(cap, Last(data, blocked_byte_count))
              IN [err |-> r.err, buffer |-> r.bytes,
                  has_buffered_data |-> IF r.err THEN s.has_buffered_data ELSE TRUE]
    ELSE [err |-> FALSE, buffer |-> s.buffer, has_buffered_data |-> FALSE]

\* transform_stream.rs:41-53  what write keeps for the next call. s is the
\* stream after WriteChunk; an init_with error returns before line 53.
WriteStore(s, cap, data, blocked_byte_count) ==
    IF NeedToBuffer(blocked_byte_count)
    THEN IF s.has_buffered_data
         THEN [err |-> FALSE,
               buffer |-> BufferShrinkToLast(s.buffer, blocked_byte_count),
               has_buffered_data |-> TRUE]
         ELSE LET r == BufferInitWith(cap, BlockedBytes(data, blocked_byte_count))
              IN [err |-> r.err, buffer |-> r.bytes,
                  has_buffered_data |-> IF r.err THEN s.has_buffered_data ELSE TRUE]
    ELSE [err |-> FALSE, buffer |-> s.buffer, has_buffered_data |-> FALSE]

\* The outcome of one call: the stream after it, its result, the handler
\* deliveries it caused and the chunk it handed to the tokenizer (if any).
Outcome(result, s, events, tokenized, chunk, blocked) ==
    [result |-> result, stream |-> s, events |-> events,
     tokenized |-> tokenized, chunk |-> chunk, blocked |-> blocked]

\* A tokenizer error is answered by tokenizing the chunk once more.
Write_Retries(s, cap, data) ==
    IF s.finished
    THEN Outcome("Panic", s, <<>>, FALSE, <<>>, 0)
    ELSE LET c == WriteChunk(s, cap, data) IN
         IF c.err
         THEN Outcome("CapacityExceeded", s, <<>>, FALSE, <<>>, 0)
         ELSE LET t1 == Tokenize(s.tokenizer, c.chunk, FALSE)
                  t2 == Tokenize(t1.tk, c.chunk, FALSE)
                  t == IF t1.err
                       THEN [t2 EXCEPT !.events = t1.events \o t2.events]
                       ELSE t1
                  s1 == [s EXCEPT !.buffer = c.buffer, !.tokenizer = t.tk]
              IN IF t.err
                 THEN Outcome("TokenizationError", s1, t.events, TRUE, c.chunk, 0)
                 ELSE LET w == WriteStore(s1, cap, data, t.blocked)
                          s2 == [s1 EXCEPT !.buffer = w.buffer,
                                           !.has_buffered_data = w.has_buffered_data]
                      IN Outcome(IF w.err THEN "CapacityExceeded" ELSE "Ok",
                                 s2, t.events, TRUE, c.chunk, t.blocked)

\* transform_stream.rs:22-56  TransformStream::write
Write(s, cap, data) ==
    IF ~WritePrecondition(s)
    THEN Outcome("Panic", s, <<>>, FALSE, <<>>, 0)
    ELSE LET c == WriteChunk(s, cap, data) IN
         IF c.err
         THEN Outcome("CapacityExceeded", s, <<>>, FALSE, <<>>, 0)
         ELSE LET t == Tokenize(s.tokenizer, c.chunk, WriteChunkIsLast)
                  s1 == [s EXCEPT !.buffer = c.buffer, !.tokenizer = t.tk]
              IN IF t.err
                 THEN Outcome("TokenizationError", s1, t.events, TRUE, c.chunk, 0)
                 ELSE LET w == WriteStore(s1, cap, data, t.blocked)
                          s2 == [s1 EXCEPT !.buffer = w.buffer,
                                           !.has_buffered_data = w.has_buffered_data]
                      IN Outcome(IF w.err THEN "CapacityExceeded" ELSE "Ok",
                                 s2, t.events, TRUE, c.chunk, t.blocked)

\* end() always builds Chunk::last_empty().
EndChunk_AlwaysEmpty(s) == <<>>

\* transform_stream.rs:64-68  Chunk::last(buffer.bytes()) or Chunk::last_empty()
EndChunk(s) == IF s.has_buffered_data THEN s.buffer ELSE <<>>

\* transform_stream.rs:65-67  Chunk::last / Chunk::last_empty mark the chunk last
EndChunkIsLast == TRUE

\* transform_stream.rs:58-75  TransformStream::end
End(s) ==
    IF ~EndPrecondition(s)
    THEN Outcome("Panic", s, <<>>, FALSE, <<>>, 0)
    ELSE LET s1 == [s EXCEPT !.finished = TRUE]
             t == Tokenize(s1.tokenizer, EndChunk(s1), EndChunkIsLast)
         IN Outcome(IF t.err THEN "TokenizationError" ELSE "Ok",
                    [s1 EXCEPT !.tokenizer = t.tk],
                    t.events, TRUE, EndChunk(s1), t.blocked)

\* transform_stream.rs:13-20  TransformStream::new
NewStream(initial_mode) ==
    [buffer |-> <<>>, has_buffered_data |-> FALSE, finished |-> FALSE,
     tokenizer |-> [state |-> "Data", pos |-> 0, mode |-> initial_mode]]

\* ------------------------------------------------------------------ ParsingResult
\* parsing_result.rs:104  TestTagPreview::new(tag_preview); seq is the place
\* of the preview among the handler deliveries of the run.
TestTagPreview(e, seq) == [name |-> e.raw, seq |-> seq]

\* parsing_result.rs:85-92  store_pending_preview; expect() panics on None.
store_pending_preview(pr) ==
    IF pr.pending_tag_preview = <<>>
    THEN [pr EXCEPT !.expect_failed = TRUE]
    ELSE [pr EXCEPT !.previews = Append(@, pr.pending_tag_preview[1]),
                    !.pending_tag_preview = <<>>]

\* The pending preview is stored whether or not it was confirmed.
add_tag_preview_AlwaysStores(pr, tag_preview, pending_preview_confirmed) ==
    LET p == IF pr.pending_tag_preview # <<>> THEN store_pending_preview(pr) ELSE pr
    IN [p EXCEPT !.pending_tag_preview = <<tag_preview>>]

\* parsing_result.rs:94-105  add_tag_preview
add_tag_preview(pr, tag_preview, pending_preview_confirmed) ==
    LET p == IF pending_preview_confirmed THEN store_pending_preview(pr) ELSE pr
    IN [p EXCEPT !.pending_tag_preview = <<tag_preview>>]

\* The confirmation flag is not reset when a preview arrives.
tag_preview_handler_NoReset(pr, tag_preview) ==
    add_tag_preview(pr, tag_preview, pr.pending_preview_confirmed)

\* parsing_result.rs:45-53  the tag preview handler closure
tag_preview_handler(pr, tag_preview) ==
    [add_tag_preview(pr, tag_preview, pr.pending_preview_confirmed)
        EXCEPT !.pending_preview_confirmed = FALSE]

\* parsing_result.rs:69  the tag confirmation handler closure
tag_confirmation_handler(pr) == [pr EXCEPT !.pending_preview_confirmed = TRUE]

\* The handlers run in delivery order; lex units leave the result alone
\* (parsing_result.rs:38-39).
RECURSIVE Deliver(_, _, _)
Deliver(pr, events, seq) ==
    IF events = <<>> THEN pr
    ELSE LET e == Head(events)
             p == IF e.kind = "TagPreview"
                  THEN tag_preview_handler(pr, TestTagPreview(e, seq))
                  ELSE IF e.kind = "Confirm"
                  THEN tag_confirmation_handler(pr)
                  ELSE pr
         IN Deliver(p, Tail(events), seq + 1)

\* The final store is made without looking at the confirmation flag.
FinishParse_AlwaysStores(pr, ok) ==
    LET p == IF ok THEN store_pending_preview(pr) ELSE pr
    IN [p EXCEPT !.has_bailout = ~ok]

\* A bail-out throws away the previews stored so far.
FinishParse_DropsOnBailout(pr, ok) ==
    LET p == IF ok /\ pr.pending_preview_confirmed
             THEN store_pending_preview(pr) ELSE pr
    IN [p EXCEPT !.has_bailout = ~ok,
                 !.previews = IF ok THEN @ ELSE <<>>]

\* parsing_result.rs:72-82 and 26: what parse does once input.parse has
\* returned, and the has_bailout that new() derives from it.
FinishParse(pr, ok) ==
    LET p == IF ok /\ pr.pending_preview_confirmed
             THEN store_pending_preview(pr) ELSE pr
    IN [p EXCEPT !.has_bailout = ~ok]

\* parsing_result.rs:19-23
NewParsingResult ==
    [previews |-> <<>>, has_bailout |-> FALSE, pending_tag_preview |-> <<>>,
     pending_preview_confirmed |-> FALSE, expect_failed |-> FALSE]

\* ------------------------------------------------------------------ TestToken
\* The characters of a decoded or raw string: plain ones, a NUL and a
\* character reference.
Chars == {"x", "NUL", "&lt;"}

\* Decoder::unsafe_null: a NUL becomes U+FFFD.
UnsafeNull(str) == [i \in 1..Len(str) |-> IF str[i] = "NUL" THEN "U+FFFD" ELSE str[i]]

\* Decoder::attr_entities: character references are decoded.
AttrEntities(str) == [i \in 1..Len(str) |-> IF str[i] = "&lt;" THEN "<" ELSE str[i]]

\* token.rs:168-174  bytes_to_str / bytes_to_string keep the bytes
bytes_to_string(bytes) == bytes

\* HashMap::insert: a later insert of the same key replaces the value.
HashMapInsert(map, key, value) ==
    [k \in DOMAIN map \cup {key} |-> IF k = key THEN value ELSE map[k]]

\* HashMap::from_iter: the pairs are inserted in iteration order.
RECURSIVE HashMapFromIter(_, _)
HashMapFromIter(map, pairs) ==
    IF pairs = <<>> THEN map
    ELSE HashMapFromIter(HashMapInsert(map, Head(pairs)[1], Head(pairs)[2]),
                         Tail(pairs))

\* Iterator::rev
Rev(seq) == [i \in 1..Len(seq) |-> seq[Len(seq) + 1 - i]]

EmptyMap == [k \in {} |-> <<>>]

\* token.rs:196-202  the closure mapped over the attributes; name is the
\* `name` bound by the StartTag pattern (token.rs:187), the tag's name.
AttributeEntry(name, attr) ==
    <<name, AttrEntities(UnsafeNull(attr.value))>>

\* token.rs:195-203  HashMap::from_iter(attributes.iter().rev().map(..))
ConvertAttributes(name, attributes) ==
    HashMapFromIter(EmptyMap,
        [i \in 1..Len(attributes) |-> AttributeEntry(name, Rev(attributes)[i])])

\* A lex result with its spans resolved against raw, and a test token; the
\* fields a variant does not have are empty.
LexResult(descr, raw, name, attributes, self_closing) ==
    [token_descr |-> descr, raw |-> raw, name |-> name,
     attributes |-> attributes, self_closing |-> self_closing]

TestToken(kind, text, name, attributes, self_closing) ==
    [kind |-> kind, text |-> text, name |-> name,
     attributes |-> attributes, self_closing |-> self_closing]

NoTestToken == TestToken("none", <<>>, <<>>, EmptyMap, FALSE)

\* token.rs:176-230  impl From<LexResult> for TestToken (Doctype, whose
\* fields are copied one by one, is left out)
FromLexResult(lex_res) ==
    IF lex_res.token_descr = "Character"
    THEN TestToken("Character", bytes_to_string(lex_res.raw), <<>>, EmptyMap, FALSE)
    ELSE IF lex_res.token_descr = "Comment"
    THEN TestToken("Comment", UnsafeNull(lex_res.raw), <<>>, EmptyMap, FALSE)
    ELSE IF lex_res.token_descr = "StartTag"
    THEN TestToken("StartTag", <<>>, lex_res.name,
                   ConvertAttributes(lex_res.name, lex_res.attributes),
                   lex_res.self_closing)
    ELSE IF lex_res.token_descr = "EndTag"
    THEN TestToken("EndTag", <<>>, lex_res.name, EmptyMap, FALSE)
    ELSE TestToken("Eof", <<>>, <<>>, EmptyMap, FALSE)

\* The lex results tried.
Names == {<<"a">>, <<"b">>}

Values == {<<c>> : c \in Chars}

Attributes == [name : Names, value : Values]

RECURSIVE AttributeLists(_)
AttributeLists(n) ==
    IF n = 0 THEN {<<>>}
    ELSE {Append(l, a) : l \in AttributeLists(n - 1), a \in Attributes}

LexResults ==
    {LexResult("StartTag", <<>>, n, l, sc) :
        n \in Names, l \in UNION {AttributeLists(k) : k \in 0..MaxAttrs},
        sc \in BOOLEAN}
    \cup {LexResult("EndTag", <<>>, n, <<>>, FALSE) : n \in Names}
    \cup {LexResult(d, r, <<>>, <<>>, FALSE) : d \in {"Character", "Comment"},
                                               r \in Values}
    \cup {LexResult("Eof", <<>>, <<>>, <<>>, FALSE)}

\* ------------------------------------------------------------------ state
VARIABLES
    input,                      \* the bytes the caller is going to write
    written,                    \* how many of them write calls have been given
    capacity,                   \* buffer_capacity given to new()
    initial_mode,               \* the NextOutputType the run starts in
    driver,                     \* "harness": ParsingResult::new; "free": any caller
    buffer, has_buffered_data, finished, tokenizer,      \* TransformStream
    previews, has_bailout, pending_tag_preview,          \* ParsingResult
    pending_preview_confirmed,  \* the Rc<Cell<bool>> shared by the closures
    expect_failed,              \* expect("Tag should have a preview") panicked
    parsed,                     \* ParsingResult::new has returned
    delivered,                  \* every handler delivery so far, in order
    lastCall, lastResult, lastData, lastChunk, lastBlocked, lastTokenized,
    endResult,                  \* what the end() that finished the stream returned
    failed,                     \* some call returned an Error
    carried,                    \* some write tokenized carry-over plus new data
    resolved,                   \* the bytes the tokenizer has resolved, while no call has failed
    emptyWrites,                \* write(b"") calls so far
    lex_res,                    \* a lex result handed to TestToken::from
    test_token                  \* the TestToken made of it

streamVars == <<buffer, has_buffered_data, finished, tokenizer>>
resultVars == <<previews, has_bailout, pending_tag_preview,
                pending_preview_confirmed, expect_failed, parsed>>
callVars == <<lastCall, lastResult, lastData, lastChunk, lastBlocked, lastTokenized>>
vars == <<input, written, capacity, initial_mode, driver, streamVars, resultVars,
          delivered, callVars, endResult, failed, carried, resolved, emptyWrites,
          lex_res, test_token>>

Stream ==
    [buffer |-> buffer, has_buffered_data |-> has_buffered_data,
     finished |-> finished, tokenizer |-> tokenizer]

Result ==
    [previews |-> previews, has_bailout |-> has_bailout,
     pending_tag_preview |-> pending_tag_preview,
     pending_preview_confirmed |-> pending_preview_confirmed,
     expect_failed |-> expect_failed]

IsError(result) == result \in {"CapacityExceeded", "TokenizationError"}

\* The state a run starts in, for a given input and configuration.
Fresh ==
    /\ written = 0
    /\ buffer = NewStream(initial_mode).buffer
    /\ has_buffered_data = NewStream(initial_mode).has_buffered_data
    /\ finished = NewStream(initial_mode).finished
    /\ tokenizer = NewStream(initial_mode).tokenizer
    /\ previews = NewParsingResult.previews
    /\ has_bailout = NewParsingResult.has_bailout
    /\ pending_tag_preview = NewParsingResult.pending_tag_preview
    /\ pending_preview_confirmed = NewParsingResult.pending_preview_confirmed
    /\ expect_failed = NewParsingResult.expect_failed
    /\ parsed = FALSE
    /\ delivered = <<>>
    /\ lastCall = "none"
    /\ lastResult = "none"
    /\ lastData = <<>>
    /\ lastChunk = <<>>
    /\ lastBlocked = 0
    /\ lastTokenized = FALSE
    /\ endResult = "none"
    /\ failed = FALSE
    /\ carried = FALSE
    /\ resolved = <<>>
    /\ emptyWrites = 0

Init ==
    /\ input \in Inputs
    /\ capacity \in 1..MaxCapacity
    /\ initial_mode \in Modes
    /\ driver \in {"harness", "free"}
    /\ Fresh
    /\ lex_res = LexResult("Eof", <<>>, <<>>, <<>>, FALSE)
    /\ test_token = NoTestToken

\* The effect of one call on the stream, on the handlers' state and on the
\* record of the call. Under the harness, input.parse returns at the first
\* error (the ? of parsing_result.rs:76) or after end(), and parse finishes.
Apply(call, data, o) ==
    LET pr == Deliver(Result, o.events, Len(delivered) + 1)
        returns == driver = "harness" /\ (IsError(o.result) \/ call = "end")
        fin == IF returns THEN FinishParse(pr, ~IsError(o.result)) ELSE pr
    IN /\ buffer' = o.stream.buffer
       /\ has_buffered_data' = o.stream.has_buffered_data
       /\ finished' = o.stream.finished
       /\ tokenizer' = o.stream.tokenizer
       /\ previews' = fin.previews
       /\ has_bailout' = fin.has_bailout
       /\ pending_tag_preview' = fin.pending_tag_preview
       /\ pending_preview_confirmed' = fin.pending_preview_confirmed
       /\ expect_failed' = fin.expect_failed
       /\ parsed' = (parsed \/ returns)
       /\ delivered' = delivered \o o.events
       /\ lastCall' = call
       /\ lastResult' = o.result
       /\ lastData' = data
       /\ lastChunk' = o.chunk
       /\ lastBlocked' = o.blocked
       /\ lastTokenized' = o.tokenized
       /\ endResult' = IF call = "end" /\ o.result # "Panic"
                       THEN o.result ELSE endResult
       /\ failed' = (failed \/ IsError(o.result))
       /\ carried' = (carried \/ (call = "write" /\ o.tokenized /\ data # <<>>
                                   /\ Len(o.chunk) > Len(data)))
       /\ resolved' = IF o.tokenized /\ ~failed /\ ~IsError(o.result)
                      THEN resolved \o SubSeq(o.chunk, 1, Len(o.chunk) - o.blocked)
                      ELSE resolved

\* The caller writes the next n bytes of the input.
WriteCall(n) ==
    /\ written + n <= Len(input)
    /\ n = 0 => emptyWrites < MaxEmptyWrites
    /\ driver = "harness" => ~parsed
    /\ LET data == SubSeq(input, written + 1, written + n)
           o == Write(Stream, capacity, data)
       IN /\ Apply("write", data, o)
          /\ written' = IF o.result = "Panic" THEN written ELSE written + n
          /\ emptyWrites' = IF n = 0 /\ o.result # "Panic"
                            THEN emptyWrites + 1 ELSE emptyWrites
    /\ UNCHANGED <<input, capacity, initial_mode, driver, lex_res, test_token>>

\* The caller ends the stream; the harness does so once every chunk is
\* written.
EndCall ==
    /\ driver = "harness" => (~parsed /\ written = Len(input))
    /\ Apply("end", <<>>, End(Stream))
    /\ UNCHANGED <<input, written, capacity, initial_mode, driver, emptyWrites,
                   lex_res, test_token>>

Next == (\E n \in 0..Len(input) : WriteCall(n)) \/ EndCall

Spec == Init /\ [][Next]_vars

\* The harness on its own (ParsingResult::new), on longer inputs: the chunks
\* are written in order, then end(), and the run stops at the first error.
InitHarness ==
    /\ input \in UNION {SeqsOfLen(n) : n \in 0..MaxHarnessLen}
    /\ capacity \in 1..MaxCapacity
    /\ initial_mode \in Modes
    /\ driver = "harness"
    /\ Fresh
    /\ lex_res = LexResult("Eof", <<>>, <<>>, <<>>, FALSE)
    /\ test_token = NoTestToken

SpecHarness == InitHarness /\ [][Next]_vars

\* The conversion of lex results into test tokens, on its own: the stream
\* stays as new() left it.
InitToken ==
    /\ input = <<>>
    /\ capacity = 1
    /\ initial_mode = "TagPreview"
    /\ driver = "harness"
    /\ Fresh
    /\ lex_res \in LexResults
    /\ test_token = NoTestToken

\* TestToken::from(lex_res)
Convert ==
    /\ test_token = NoTestToken
    /\ test_token' = FromLexResult(lex_res)
    /\ UNCHANGED <<input, written, capacity, initial_mode, driver, streamVars,
                   resultVars, delivered, callVars, endResult, failed, carried,
                   resolved, emptyWrites, lex_res>>

NextToken == Convert

SpecToken == InitToken /\ [][NextToken]_vars

\* ------------------------------------------------------------------ claims
IsPrefix(s, t) == Len(s) <= Len(t) /\ SubSeq(t, 1, Len(s)) = s

\* What the handlers get, and how the run ends, when the whole input is
\* given to one write followed by end (the caller stops at an error).
SingleShot(data, cap, mode) ==
    LET w == Write(NewStream(mode), cap, data)
        e == End(w.stream)
    IN IF IsError(w.result)
       THEN [events |-> w.events, outcome |-> w.result]
       ELSE [events |-> w.events \o e.events, outcome |-> e.result]

HarnessDone == driver = "harness" /\ parsed

\* C1 as stated: whatever the partition, the deliveries and the outcome of
\* the run equal those of write(input); end().
C1_ChunkingTransparencyAsStated ==
    HarnessDone =>
        /\ delivered = SingleShot(input, capacity, initial_mode).events
        /\ lastResult = SingleShot(input, capacity, initial_mode).outcome

\* C1 (amended): a partitioned run none of whose writes fails with the
\* capacity error delivers exactly what write(input); end() delivers and
\* ends with the same outcome; a run stopped by the capacity error has
\* delivered a prefix of what the single write delivers.
C1_ChunkingTransparency ==
    HarnessDone =>
        LET single == SingleShot(input, capacity, initial_mode)
        IN IF lastResult = "CapacityExceeded"
           THEN IsPrefix(delivered, single.events)
           ELSE delivered = single.events /\ lastResult = single.outcome

\* A run with carry-over across a write boundary that ended well and
\* delivered a tag.
C1_Witness ==
    /\ HarnessDone /\ lastResult = "Ok" /\ carried
    /\ \E i \in 1..Len(delivered) : delivered[i].kind \in {"StartTag", "Confirm"}

\* The carry-over the stream holds for the next call.
Pending == IF has_buffered_data THEN buffer ELSE <<>>

\* C2: after a successful write whose tokenize call returned k blocked
\* bytes, has_buffered_data is true iff k > 0 and the buffer then holds the
\* last k bytes of the chunk; and the chunk of the next tokenize call (in
\* the next write or in end) is those k bytes followed by the new data.
C2_CarryOver ==
    [][/\ (lastCall' = "write" /\ lastResult' = "Ok") =>
            /\ has_buffered_data' = (lastBlocked' > 0)
            /\ lastBlocked' > 0 => buffer' = Last(lastChunk', lastBlocked')
       /\ (lastCall = "write" /\ lastResult = "Ok" /\ lastTokenized') =>
            lastChunk' = Last(lastChunk, lastBlocked) \o lastData'
      ]_vars

\* A write on the buffered path that kept a proper tail of its chunk,
\* followed by a write that tokenized that tail plus its data.
C2_Witness ==
    /\ lastCall = "write" /\ lastResult = "Ok" /\ lastData # <<>>
    /\ Len(lastChunk) > Len(lastData)
    /\ 0 < lastBlocked /\ lastBlocked < Len(lastChunk)

CountKind(events, kind) ==
    Cardinality({i \in 1..Len(events) : events[i].kind = kind})

\* C3 as stated: once end() has been called exactly one Eof has been
\* produced, and none before.
C3_SingleEofAsStated ==
    CountKind(delivered, "Eof") = IF finished THEN 1 ELSE 0

\* C3 (amended): an end() that returns Ok produces exactly one Eof; no
\* write produces one, and neither does an end() whose tokenize call fails.
C3_SingleEof ==
    CountKind(delivered, "Eof") = IF endResult = "Ok" THEN 1 ELSE 0

\* An end() after several writes that returned Ok.
C3_Witness ==
    /\ endResult = "Ok" /\ lastCall = "end" /\ carried
    /\ written = Len(input) /\ CountKind(delivered, "Eof") = 1

\* C4: a write whose chunk (the carry-over followed by the data) leaves an
\* unresolved tail longer than the capacity returns the capacity error and
\* does not store the tail.
C4_CapacityEnforced ==
    [][(lastCall' = "write" /\ ~finished) =>
          LET t == Tokenize(tokenizer, Pending \o lastData', FALSE)
          IN (~t.err /\ t.blocked > capacity) =>
                /\ lastResult' = "CapacityExceeded"
                /\ has_buffered_data' = has_buffered_data
                /\ Len(buffer') <= capacity
      ]_vars

\* One write of an unterminated tag longer than the capacity failed.
C4_Witness ==
    /\ lastCall = "write" /\ lastResult = "CapacityExceeded"
    /\ lastTokenized /\ lastChunk = lastData /\ lastData = input
    /\ lastData[1] = "<" /\ lastBlocked = Len(lastData)
    /\ lastBlocked > capacity

\* C5: a write whose chunk leaves an unresolved tail within the capacity
\* does not fail with the capacity error (the capacity error means that the
\* unresolved construct itself is longer than the capacity).
C5_CapacityErrorMeansOversizedTail ==
    [][(lastCall' = "write" /\ ~finished) =>
          LET t == Tokenize(tokenizer, Pending \o lastData', FALSE)
          IN (~t.err /\ t.blocked <= capacity) => lastResult' # "CapacityExceeded"
      ]_vars

\* C6: the buffer never holds more than capacity bytes, and a call that
\* returns the capacity error has not grown it.
C6_BufferBound ==
    /\ [](Len(buffer) <= capacity)
    /\ [][lastResult' = "CapacityExceeded" => Len(buffer') <= Len(buffer)]_vars

\* A full buffer that refused more data.
C6_Witness ==
    /\ lastCall = "write" /\ lastResult = "CapacityExceeded" /\ ~lastTokenized
    /\ has_buffered_data /\ Len(buffer) = capacity /\ lastData # <<>>

\* C7: once end() has been called, however it returned, every write() and
\* end() panics: it returns neither Ok nor an Error, reaches neither the
\* tokenizer nor a handler and leaves the stream as it was.
C7_ForwardOnly ==
    [][finished =>
          /\ lastResult' = "Panic"
          /\ ~lastTokenized'
          /\ delivered' = delivered
          /\ <<previews, pending_tag_preview, pending_preview_confirmed>>'
                = <<previews, pending_tag_preview, pending_preview_confirmed>>
          /\ streamVars' = streamVars
      ]_vars

\* A write of real data after end().
C7_Witness ==
    /\ finished /\ lastCall = "write" /\ lastResult = "Panic" /\ lastData # <<>>
    /\ written < Len(input)

PreviewSeqs == {i \in 1..Len(delivered) : delivered[i].kind = "TagPreview"}

\* The place of the preview that follows preview i, or one past the last
\* delivery when none has followed yet.
NextPreview(i) ==
    LET later == {j \in PreviewSeqs : j > i}
    IN IF later = {} THEN Len(delivered) + 1
       ELSE CHOOSE j \in later : \A k \in later : j <= k

\* The confirmation callback fired after preview i and before the next one.
Confirmed(i) ==
    \E j \in (i + 1)..(NextPreview(i) - 1) : delivered[j].kind = "Confirm"

\* How often preview i is in the stored list.
StoredCount(i) ==
    Cardinality({k \in 1..Len(previews) :
                    previews[k] = TestTagPreview(delivered[i], i)})

\* C9: a preview with no confirmation between its delivery and the next
\* preview (or the end of the run) is not in the stored list, and the
\* pending preview, if any, is the one delivered last.
C9_PreviewDrop ==
    /\ \A i \in PreviewSeqs : ~Confirmed(i) => StoredCount(i) = 0
    /\ \A k \in 1..Len(previews) : previews[k].seq \in PreviewSeqs
    /\ pending_tag_preview # <<>> =>
          /\ NextPreview(pending_tag_preview[1].seq) = Len(delivered) + 1
          /\ pending_tag_preview
                = <<TestTagPreview(delivered[pending_tag_preview[1].seq],
                                   pending_tag_preview[1].seq)>>

\* An unconfirmed preview was replaced by the next one, which was confirmed
\* and stored when the run ended.
C9_Witness ==
    /\ HarnessDone /\ ~has_bailout
    /\ \E i \in PreviewSeqs :
          /\ ~Confirmed(i) /\ NextPreview(i) <= Len(delivered)
          /\ StoredCount(NextPreview(i)) = 1

\* C10: a preview that was confirmed before the next preview arrived or the
\* run finished is in the stored list exactly once, however the run ended.
C10_ConfirmedStoredOnce ==
    \A i \in PreviewSeqs :
        (Confirmed(i) /\ (NextPreview(i) <= Len(delivered) \/ HarnessDone))
            => StoredCount(i) = 1

\* C10 for the runs that do not bail out.
C10_ConfirmedStoredOnceNoBailout ==
    \A i \in PreviewSeqs :
        /\ StoredCount(i) <= 1
        /\ (Confirmed(i) /\ (NextPreview(i) <= Len(delivered)
                               \/ (HarnessDone /\ ~has_bailout)))
              => StoredCount(i) = 1

\* The deliveries that go to a handler whose return value is the next mode.
IsTagDelivery(e) == e.kind \in {"StartTag", "TagPreview"}

\* The mode register before delivery i, by the claim's rule: the initial
\* mode until a tag handler or the preview handler has returned, and from
\* then on what the latest of them returned (both handlers of
\* ParsingResult::parse return NextOutputType::TagPreview).
ModeBefore(i) ==
    IF \E j \in 1..(i - 1) : IsTagDelivery(delivered[j])
    THEN "TagPreview"
    ELSE initial_mode

NewDeliveries == SubSeq(delivered', Len(delivered) + 1, Len(delivered'))

\* C12: a call hands the tokenizer at most one chunk, once: its deliveries
\* are those of one tokenize call on that chunk. When that call fails, the
\* write or end returns the tokenizer's error and does nothing more: the
\* buffer holds what the tokenizer was given (no shrink_to_last, no
\* init_with) and has_buffered_data is as before.
C12_NoRetry ==
    [][/\ ~lastTokenized' => delivered' = delivered
       /\ lastTokenized' =>
            LET t == Tokenize(tokenizer, lastChunk', lastCall' = "end")
            IN /\ NewDeliveries = t.events
               /\ tokenizer' = t.tk
               /\ t.err <=> lastResult' = "TokenizationError"
               /\ t.err =>
                    /\ has_buffered_data' = has_buffered_data
                    /\ buffer' = IF has_buffered_data THEN lastChunk' ELSE buffer
      ]_vars

\* A write on the buffered path whose tokenize call failed.
C12_Witness ==
    /\ lastCall = "write" /\ lastResult = "TokenizationError" /\ lastTokenized
    /\ has_buffered_data /\ buffer = lastChunk /\ Len(lastChunk) > Len(lastData)
    /\ lastData # <<>>

\* The names of the attributes of a start tag, and the first attribute of
\* a name in the order of the collection.
AttrNames(attributes) == {attributes[i].name : i \in 1..Len(attributes)}

FirstWithName(attributes, n) ==
    attributes[CHOOSE i \in 1..Len(attributes) :
                  /\ attributes[i].name = n
                  /\ \A j \in 1..(i - 1) : attributes[j].name # n]

DistinctNames(attributes) == Cardinality(AttrNames(attributes)) = Len(attributes)

Converted == test_token # NoTestToken /\ lex_res.token_descr = "StartTag"

\* C13: the attribute map of a converted start tag with pairwise distinct
\* attribute names has one entry per attribute, keyed by the attribute's
\* name and holding its decoded value.
C13_AttributeMap ==
    (Converted /\ DistinctNames(lex_res.attributes)) =>
        /\ DOMAIN test_token.attributes = AttrNames(lex_res.attributes)
        /\ Cardinality(DOMAIN test_token.attributes) = Len(lex_res.attributes)
        /\ \A i \in 1..Len(lex_res.attributes) :
              test_token.attributes[lex_res.attributes[i].name]
                 = AttrEntities(UnsafeNull(lex_res.attributes[i].value))

\* C16: for every attribute name of a converted start tag, the map holds
\* the decoded value of the first attribute of that name.
C16_FirstDuplicateWins ==
    Converted =>
        \A n \in AttrNames(lex_res.attributes) :
            /\ n \in DOMAIN test_token.attributes
            /\ test_token.attributes[n]
                  = AttrEntities(UnsafeNull(FirstWithName(lex_res.attributes, n).value))

\* C14: while every call has returned Ok, the bytes resolved so far (each
\* tokenized chunk without its blocked tail, in call order) followed by the
\* pending carry-over are the data written so far; after end() the resolved
\* bytes are all of it.
C14_NoByteLost ==
    ~failed =>
        resolved \o (IF finished THEN <<>> ELSE Pending) = SubSeq(input, 1, written)

\* The whole input went through several writes with carry-over, then end().
C14_Witness ==
    /\ ~failed /\ endResult = "Ok" /\ carried
    /\ written = Len(input) /\ Len(input) >= 3 /\ resolved = input
    /\ lastChunk # <<>>

\* C15: a write performed while no carry-over is pending tokenizes the
\* caller's data itself; if nothing is blocked, the buffer contents and
\* has_buffered_data (false) are as before the call. No call changes the buffer
\* unless carry-over was pending at entry or the blocked count is nonzero.
C15_FastPathLeavesBuffer ==
    [][/\ (lastCall' = "write" /\ lastResult' # "Panic" /\ ~has_buffered_data) =>
             /\ lastTokenized'
             /\ lastChunk' = lastData'
             /\ (lastResult' = "Ok" /\ lastBlocked' = 0) =>
                    (buffer' = buffer /\ ~has_buffered_data')
       /\ buffer' # buffer => (has_buffered_data \/ lastBlocked' > 0)
      ]_vars

\* A fast-path write with nothing blocked, made while the buffer still holds
\* the bytes of an earlier carry-over.
C15_Witness ==
    /\ lastCall = "write" /\ lastResult = "Ok" /\ lastData # <<>>
    /\ lastChunk = lastData /\ lastBlocked = 0
    /\ ~has_buffered_data /\ buffer # <<>>

\* C17: once the harness run is over, has_bailout is true iff some write or
\* end of the run returned an error; and no step, the failing call and the
\* end of the run included, removes or reorders a preview already stored.
C17_BailoutKeepsPartial ==
    /\ [](HarnessDone => (has_bailout <=> failed))
    /\ [][IsPrefix(previews, previews')]_vars

\* A run that bailed out on a one-byte chunk, which the tokenizer rejected at
\* once, after a preview had been stored by an earlier write.
C17_Witness ==
    /\ HarnessDone /\ has_bailout /\ failed /\ previews # <<>>
    /\ lastCall = "write" /\ lastResult = "TokenizationError" /\ Len(lastChunk) = 1

\* C18: store_pending_preview's expect never fires: until parse has returned,
\* a true confirmation flag comes with a pending preview, so each store, at a
\* preview arrival or at the end of a successful parse, finds one.
C18_ExpectNeverFires ==
    /\ ~expect_failed
    /\ (pending_preview_confirmed /\ ~parsed) => pending_tag_preview # <<>>

\* A successful run that stored one preview at the arrival of the next and
\* the last one at the end of parse.
C18_Witness ==
    /\ HarnessDone /\ ~has_bailout /\ Len(previews) >= 2
    /\ pending_preview_confirmed /\ pending_tag_preview = <<>>

\* The preview delivered last, if any, has been confirmed.
LatestConfirmed ==
    \E i \in PreviewSeqs : NextPreview(i) = Len(delivered) + 1 /\ Confirmed(i)

\* C19: the stored list is a subsequence of the delivered previews: each
\* entry is a delivered preview and the entries stand in delivery order. A
\* confirmation is credited to the preview delivered last only: until parse
\* has returned, the flag is true exactly when a confirmation has come since
\* the latest preview.
C19_StoredInDeliveryOrder ==
    /\ \A k \in 1..Len(previews) :
          /\ previews[k].seq \in PreviewSeqs
          /\ previews[k] = TestTagPreview(delivered[previews[k].seq], previews[k].seq)
    /\ \A k, l \in 1..Len(previews) : k < l => previews[k].seq < previews[l].seq
    /\ ~parsed => (pending_preview_confirmed <=> LatestConfirmed)

\* A successful run in which a confirmed preview was stored and the preview
\* delivered after it, never confirmed itself, was not.
C19_Witness ==
    /\ HarnessDone /\ ~has_bailout /\ Len(previews) = 1
    /\ Confirmed(previews[1].seq)
    /\ \E i \in PreviewSeqs : i > previews[1].seq /\ ~Confirmed(i)
    /\ ~pending_preview_confirmed

\* C20: a write that returns an error, from append, from the tokenizer or
\* from init_with, leaves has_buffered_data and finished as they were; only
\* end() changes finished, and only from false to true.
C20_FailedWriteKeepsFlags ==
    [][/\ (lastCall' = "write" /\ IsError(lastResult')) =>
             /\ has_buffered_data' = has_buffered_data
             /\ finished' = finished
       /\ finished' # finished => (lastCall' = "end" /\ ~finished /\ finished')
      ]_vars

\* A fast-path write whose blocked tail did not fit the buffer.
C20_Witness ==
    /\ lastCall = "write" /\ lastResult = "CapacityExceeded" /\ lastTokenized
    /\ lastBlocked > capacity /\ ~has_buffered_data /\ ~finished

====
